---- MODULE Spec2Model ----
(***************************************************************************)
(* Document text extraction (utils/pdf_extractor.py) and the Together AI   *)
(* client wrapper (utils/llm_client.py).                                   *)
(*                                                                         *)
(* A text is a sequence of code points (natural numbers).  A byte string   *)
(* is a sequence of bytes 0..255.  A message built by an f-string is the   *)
(* sequence of its parts.                                                  *)
(***************************************************************************)
EXTENDS Integers, Sequences, FiniteSets, TLC

VARIABLES
    text,          \* _clean_text: the string the next call is given
    orig,          \* _clean_text: the string the first call was given
    prev,          \* _clean_text: the argument of the latest call
    cleans,        \* _clean_text: number of calls made so far
    file_content,  \* extract_text_from_file: the uploaded bytes
    file_type,     \* extract_text_from_file: the format tag as given
    extracted,     \* extract_text_from_file has returned
    result,        \* extract_text_from_file: (success, text, error_message)
    api_key,       \* LLMClient.__init__: the api_key argument
    config_key,    \* Config.TOGETHER_API_KEY
    client,        \* LLMClient.client: TRUE for True, FALSE for None
    http_requests, \* number of requests.post calls made so far
    call,          \* the latest operation of the client and its arguments
    outcome,       \* what the transport did with the latest request
    ret,           \* the value the latest operation returned
    ok,            \* the flag test_connection returned
    raised,        \* an exception left the latest operation
    sent,          \* the payloads the latest operation handed to requests.post
    stats_text,    \* get_text_stats: the text argument (None or a string)
    stats_done,    \* get_text_stats has returned
    stats          \* get_text_stats: the dictionary returned

cleanVars == <<text, orig, prev, cleans>>
extractVars == <<file_content, file_type, extracted, result>>
clientVars == <<api_key, config_key, client, http_requests, call, outcome, ret, ok,
                raised, sent>>
statsVars == <<stats_text, stats_done, stats>>
vars == <<text, orig, prev, cleans, file_content, file_type, extracted, result,
          api_key, config_key, client, http_requests, call, outcome, ret, ok,
          raised, sent, stats_text, stats_done, stats>>

(***************************************************************************)
(* Bounds                                                                  *)
(***************************************************************************)
MaxLen == 5        \* longest enumerated input string of _clean_text
MaxCleans == 2     \* _clean_text is applied at most this many times in a row
MaxBytes == 3      \* longest enumerated byte content of an upload
MaxParts == 2      \* most pages / paragraphs a parsed document has
PadShown == 1      \* spaces that stand for a trailing run of padding spaces
MaxReply == 2      \* longest enumerated reply of the model, in characters
MaxRequests == 2   \* requests.post calls made by one client

(***************************************************************************)
(* Characters                                                              *)
(***************************************************************************)
SP == 32           \* ' '
NL == 10           \* '\n'

\* str.isspace(): the characters str.strip() removes.
IsSpace(c) == c \in (9..13) \cup (28..32) \cup {133, 160, 5760} \cup (8192..8202)
                   \cup {8232, 8233, 8239, 8287, 12288}

(***************************************************************************)
(* _clean_text                                                             *)
(***************************************************************************)
\* index of the first '\n' of s, 0 when there is none
FirstNL(s) == IF \E i \in 1..Len(s) : s[i] = NL
              THEN CHOOSE i \in 1..Len(s) : s[i] = NL /\ \A j \in 1..(i-1) : s[j] # NL
              ELSE 0

RECURSIVE SplitLines(_)
\* text.split('\n')
SplitLines(s) == IF FirstNL(s) = 0 THEN <<s>>
                 ELSE <<SubSeq(s, 1, FirstNL(s) - 1)>>
                      \o SplitLines(SubSeq(s, FirstNL(s) + 1, Len(s)))

RECURSIVE LStrip(_)
LStrip(s) == IF s # <<>> /\ IsSpace(Head(s)) THEN LStrip(Tail(s)) ELSE s

RECURSIVE RStrip(_)
RStrip(s) == IF s # <<>> /\ IsSpace(s[Len(s)]) THEN RStrip(SubSeq(s, 1, Len(s) - 1)) ELSE s

\* line.strip()
Strip(s) == RStrip(LStrip(s))

RECURSIVE CleanedLines(_)
\* the loop of lines 174-178: strip each line, keep the non-empty ones
CleanedLines(lines) ==
    IF lines = <<>> THEN <<>>
    ELSE LET cleaned_line == Strip(Head(lines))
         IN  (IF cleaned_line # <<>> THEN <<cleaned_line>> ELSE <<>>)
             \o CleanedLines(Tail(lines))

RECURSIVE JoinLines(_)
\* '\n'.join(cleaned_lines)
JoinLines(lines) == IF lines = <<>> THEN <<>>
                    ELSE IF Len(lines) = 1 THEN Head(lines)
                    ELSE Head(lines) \o <<NL>> \o JoinLines(Tail(lines))

RECURSIVE ReplaceOnePair(_)
\* str.replace('  ', ' '): each non-overlapping pair of spaces becomes one space
ReplaceOnePair(s) ==
    IF Len(s) < 2 THEN s
    ELSE IF s[1] = SP /\ s[2] = SP THEN <<SP>> \o ReplaceOnePair(Tail(Tail(s)))
    ELSE <<Head(s)>> \o ReplaceOnePair(Tail(s))

RECURSIVE CollapseSpaces(_)
\* re.sub(r' +', ' ', s): every maximal run of spaces becomes one space
CollapseSpaces(s) ==
    IF Len(s) < 2 THEN s
    ELSE IF s[1] = SP /\ s[2] = SP THEN CollapseSpaces(Tail(s))
    ELSE <<Head(s)>> \o CollapseSpaces(Tail(s))

\* _clean_text without the per-line strip
CleanTextNoStrip(s) ==
    IF s = <<>> THEN <<>>
    ELSE CollapseSpaces(JoinLines(SelectSeq(SplitLines(s), LAMBDA l : Strip(l) # <<>>)))

\* DocumentExtractor._clean_text
CleanText(s) ==
    IF s = <<>> THEN <<>>
    ELSE CollapseSpaces(JoinLines(CleanedLines(SplitLines(s))))

(***************************************************************************)
(* get_text_stats                                                          *)
(***************************************************************************)
\* index of the first whitespace character of s, Len(s) + 1 when there is none
FirstSpace(s) == IF \E i \in 1..Len(s) : IsSpace(s[i])
                 THEN CHOOSE i \in 1..Len(s) : IsSpace(s[i]) /\ \A j \in 1..(i-1) : ~IsSpace(s[j])
                 ELSE Len(s) + 1

RECURSIVE SplitWords(_)
\* text.split(): the maximal runs of non-whitespace characters
SplitWords(s) ==
    LET t == LStrip(s)
    IN  IF t = <<>> THEN <<>>
        ELSE <<SubSeq(t, 1, FirstSpace(t) - 1)>> \o SplitWords(SubSeq(t, FirstSpace(t), Len(t)))

\* index of the first '\n\n' of s, 0 when there is none
FirstBlank(s) ==
    IF \E i \in 1..(Len(s) - 1) : s[i] = NL /\ s[i+1] = NL
    THEN CHOOSE i \in 1..(Len(s) - 1) :
             /\ s[i] = NL /\ s[i+1] = NL
             /\ \A j \in 1..(i-1) : ~(s[j] = NL /\ s[j+1] = NL)
    ELSE 0

RECURSIVE SplitParagraphs(_)
\* text.split('\n\n')
SplitParagraphs(s) ==
    IF FirstBlank(s) = 0 THEN <<s>>
    ELSE <<SubSeq(s, 1, FirstBlank(s) - 1)>>
         \o SplitParagraphs(SubSeq(s, FirstBlank(s) + 2, Len(s)))

\* the dictionary of lines 192-197
ZeroStats == [character_count |-> 0, word_count |-> 0, line_count |-> 0,
              paragraph_count |-> 0]

\* lines 200-210
ComputedStats(s) ==
    [character_count |-> Len(s),
     word_count      |-> Len(SplitWords(s)),
     line_count      |-> Len(SplitLines(s)),
     paragraph_count |-> Len(SelectSeq(SplitParagraphs(s), LAMBDA q : Strip(q) # <<>>))]

\* get_text_stats with the test of line 191 as `text is None`
GetTextStatsUnlessNone(t) == IF t = <<>> THEN ZeroStats ELSE ComputedStats(t[1])

\* DocumentExtractor.get_text_stats(text); t is <<>> for None, <<s>> for the
\* string s
GetTextStats(t) ==
    IF t = <<>> \/ t[1] = <<>> THEN ZeroStats ELSE ComputedStats(t[1])

(***************************************************************************)
(* Configuration (config.py)                                               *)
(***************************************************************************)
MAX_FILE_SIZE == 10 * 1024 * 1024
SUPPORTED_FILE_TYPES == {"pdf", "txt", "docx"}
\* str(['pdf', 'txt', 'docx']), as the f-string of line 46 renders the list
SupportedRepr == "['pdf', 'txt', 'docx']"

(***************************************************************************)
(* Uploaded content.  A content is the bytes `data` followed by `pad`      *)
(* space bytes (0x20); the padding is what makes a file exceed the size    *)
(* limit without enumerating ten million bytes.                            *)
(***************************************************************************)
\* len(file_content)
FileLen(c) == Len(c.data) + c.pad

\* the truth value of a bytes object: non-empty
Truthy(c) == FileLen(c) > 0

\* The bytes a decoder reads.  A trailing run of spaces is removed by
\* line.strip() whatever its length, so PadShown of them stand for the run.
FileBytes(c) == c.data \o [i \in 1..(IF c.pad < PadShown THEN c.pad ELSE PadShown) |-> SP]

\* str.lower() on the format tags
Lower(t) == CASE t = "TXT" -> "txt"
              [] t = "Pdf" -> "pdf"
              [] t = "EXE" -> "exe"
              [] OTHER -> t

(***************************************************************************)
(* Decoding (bytes.decode, strict)                                         *)
(***************************************************************************)
IsCont(b) == b \in 128..191

\* length of the UTF-8 sequence that starts bs, 0 when bs starts with an
\* ill-formed sequence
Utf8SeqLen(bs) ==
    LET b1 == bs[1]
        n  == Len(bs)
    IN  IF b1 < 128 THEN 1
        ELSE IF b1 \in 194..223 THEN (IF n >= 2 /\ IsCont(bs[2]) THEN 2 ELSE 0)
        ELSE IF b1 \in 224..239
             THEN (IF /\ n >= 3 /\ IsCont(bs[2]) /\ IsCont(bs[3])
                      /\ (b1 = 224 => bs[2] >= 160)
                      /\ (b1 = 237 => bs[2] <= 159)
                   THEN 3 ELSE 0)
        ELSE IF b1 \in 240..244
             THEN (IF /\ n >= 4 /\ IsCont(bs[2]) /\ IsCont(bs[3]) /\ IsCont(bs[4])
                      /\ (b1 = 240 => bs[2] >= 144)
                      /\ (b1 = 244 => bs[2] <= 143)
                   THEN 4 ELSE 0)
        ELSE 0

\* the code point of the well-formed sequence of length k that starts bs
Utf8CodePoint(bs, k) ==
    CASE k = 1 -> bs[1]
      [] k = 2 -> (bs[1] - 192) * 64 + (bs[2] - 128)
      [] k = 3 -> (bs[1] - 224) * 4096 + (bs[2] - 128) * 64 + (bs[3] - 128)
      [] k = 4 -> (bs[1] - 240) * 262144 + (bs[2] - 128) * 4096
                  + (bs[3] - 128) * 64 + (bs[4] - 128)

RECURSIVE Utf8Valid(_)
\* file_content.decode('utf-8') does not raise UnicodeDecodeError
Utf8Valid(bs) ==
    IF bs = <<>> THEN TRUE
    ELSE /\ Utf8SeqLen(bs) > 0
         /\ Utf8Valid(SubSeq(bs, Utf8SeqLen(bs) + 1, Len(bs)))

RECURSIVE Utf8Decode(_)
\* file_content.decode('utf-8') of valid bytes
Utf8Decode(bs) ==
    IF bs = <<>> THEN <<>>
    ELSE <<Utf8CodePoint(bs, Utf8SeqLen(bs))>>
         \o Utf8Decode(SubSeq(bs, Utf8SeqLen(bs) + 1, Len(bs)))

\* cp1252 code points of the bytes 0x80..0x9f; 0 where cp1252 defines none
Cp1252High ==
    <<8364, 0, 8218, 402, 8222, 8230, 8224, 8225, 710, 8240, 352, 8249, 338, 0, 381, 0,
      0, 8216, 8217, 8220, 8221, 8226, 8211, 8212, 732, 8482, 353, 8250, 339, 0, 382, 376>>

Cp1252Char(b) == IF b \in 128..159 THEN Cp1252High[b - 127] ELSE b

\* file_content.decode(encoding) does not raise UnicodeDecodeError
CanDecode(encoding, bs) ==
    CASE encoding = "utf-8"   -> Utf8Valid(bs)
      [] encoding = "latin-1" -> TRUE
      [] encoding = "ascii"   -> \A i \in 1..Len(bs) : bs[i] < 128
      [] encoding = "cp1252"  -> \A i \in 1..Len(bs) : Cp1252Char(bs[i]) # 0

\* file_content.decode(encoding)
Decode(encoding, bs) ==
    CASE encoding = "utf-8"   -> Utf8Decode(bs)
      [] encoding = "latin-1" -> [i \in 1..Len(bs) |-> bs[i]]
      [] encoding = "ascii"   -> [i \in 1..Len(bs) |-> bs[i]]
      [] encoding = "cp1252"  -> [i \in 1..Len(bs) |-> Cp1252Char(bs[i])]

\* the fallback list of line 115 without its first entry
FallbackEncodingsNoLatin1 == <<"ascii", "cp1252">>

\* the fallback list of line 115
FallbackEncodings == <<"latin-1", "ascii", "cp1252">>

RECURSIVE FirstAccepting(_, _)
\* the for loop of lines 115-120: the first encoding of the list that decodes
\* bs, "" when the loop ends without a break
FirstAccepting(encodings, bs) ==
    IF encodings = <<>> THEN ""
    ELSE IF CanDecode(Head(encodings), bs) THEN Head(encodings)
    ELSE FirstAccepting(Tail(encodings), bs)

\* the encoding lines 111-122 decode with, "" when they return the failure
TxtEncoding(bs) ==
    IF CanDecode("utf-8", bs) THEN "utf-8" ELSE FirstAccepting(FallbackEncodings, bs)

(***************************************************************************)
(* Extraction results                                                      *)
(***************************************************************************)
\* return True, text, ""
Ok(t, steps) == [success |-> TRUE, text |-> t, error |-> <<>>, steps |-> steps]

\* return False, "", error
Fail(error, steps) == [success |-> FALSE, text |-> <<>>, error |-> error, steps |-> steps]

RECURSIVE ConcatParts(_)
\* text += part + "\n" for every page / paragraph
ConcatParts(parts) ==
    IF parts = <<>> THEN <<>>
    ELSE Head(parts) \o <<NL>> \o ConcatParts(Tail(parts))

\* _extract_txt_text without the check of line 127
ExtractTxtTextUnchecked(c) ==
    IF ~Truthy(c) THEN Fail(<<"Error reading TXT file: ", "local variable 'text' referenced before assignment">>, <<>>)
    ELSE IF TxtEncoding(FileBytes(c)) = ""
         THEN Fail(<<"Unable to decode text file with common encodings">>, <<"decode">>)
    ELSE Ok(CleanText(Decode(TxtEncoding(FileBytes(c)), FileBytes(c))), <<"decode", "clean">>)

\* DocumentExtractor._extract_txt_text with file_path = None
ExtractTxtText(c) ==
    IF ~Truthy(c)
    THEN \* neither branch assigns text: line 125 raises, line 133 catches
         Fail(<<"Error reading TXT file: ", "local variable 'text' referenced before assignment">>, <<>>)
    ELSE IF TxtEncoding(FileBytes(c)) = ""
         THEN Fail(<<"Unable to decode text file with common encodings">>, <<"decode">>)
    ELSE LET t == CleanText(Decode(TxtEncoding(FileBytes(c)), FileBytes(c)))
         IN  IF Strip(t) = <<>>
             THEN Fail(<<"No text found in file">>, <<"decode", "clean">>)
             ELSE Ok(t, <<"decode", "clean">>)

\* DocumentExtractor._extract_pdf_text with file_path = None; p is what
\* PyPDF2 does with the bytes: it raises p.msg, or yields the page texts p.parts
ExtractPdfText(c, p) ==
    IF Truthy(c) /\ p.raises
    THEN Fail(<<"Error reading PDF: ", p.msg>>, <<"pdf_parse">>)
    ELSE LET t == CleanText(IF Truthy(c) THEN ConcatParts(p.parts) ELSE <<>>)
             steps == IF Truthy(c) THEN <<"pdf_parse", "clean">> ELSE <<"clean">>
         IN  IF Strip(t) = <<>>
             THEN Fail(<<"No text found in PDF file">>, steps)
             ELSE Ok(t, steps)

\* DocumentExtractor._extract_docx_text with file_path = None; p is what
\* python-docx does with the bytes: it raises p.msg, or yields the paragraph
\* texts p.parts
ExtractDocxText(c, p) ==
    IF Truthy(c) /\ p.raises
    THEN Fail(<<"Error reading DOCX file: ", p.msg>>, <<"docx_parse">>)
    ELSE LET t == CleanText(IF Truthy(c) THEN ConcatParts(p.parts) ELSE <<>>)
             steps == IF Truthy(c) THEN <<"docx_parse", "clean">> ELSE <<"clean">>
         IN  IF Strip(t) = <<>>
             THEN Fail(<<"No text found in DOCX file">>, steps)
             ELSE Ok(t, steps)

\* f"{size_mb:.2f}" for size_mb = n / (1024 * 1024)
SizeMB2f(n) ==
    LET h == (n * 200 + 1024 * 1024) \div (2 * 1024 * 1024)
    IN  <<ToString(h \div 100), ".", ToString((h % 100) \div 10), ToString(h % 10)>>

\* the size test of line 49 with the size taken in MB
TooLargeInMB(c) == Truthy(c) /\ FileLen(c) \div (1024 * 1024) > MAX_FILE_SIZE

\* the size test of line 49
TooLarge(c) == Truthy(c) /\ FileLen(c) > MAX_FILE_SIZE

\* DocumentExtractor.extract_text_from_file(file_content=c, file_type=tag),
\* the call of the upload flow (file_path is None)
ExtractTextFromFile(c, tag, p) ==
    IF ~(Truthy(c) /\ tag # "")
    THEN Fail(<<"No file provided or file type not specified">>, <<>>)
    ELSE IF Lower(tag) \notin SUPPORTED_FILE_TYPES
    THEN Fail(<<"Unsupported file type: ", Lower(tag), ". Supported types: ", SupportedRepr>>, <<>>)
    ELSE IF TooLarge(c)
    THEN Fail(<<"File too large: ">> \o SizeMB2f(FileLen(c))
              \o <<"MB. Maximum size: ", ToString(MAX_FILE_SIZE \div (1024 * 1024)), ".0", "MB">>, <<>>)
    ELSE IF Lower(tag) = "pdf" THEN ExtractPdfText(c, p)
    ELSE IF Lower(tag) = "txt" THEN ExtractTxtText(c)
    ELSE IF Lower(tag) = "docx" THEN ExtractDocxText(c, p)
    ELSE Fail(<<"Extraction method not implemented for ", Lower(tag)>>, <<>>)

(***************************************************************************)
(* LLMClient (utils/llm_client.py)                                         *)
(*                                                                         *)
(* An optional argument is <<>> for None and <<v>> for the value v.  A     *)
(* Python string is the sequence of its chunks; a chunk is the sentinel    *)
(* character, another single character, or a literal without the sentinel. *)
(* A Python value is [type, s]: a str with chunks s, a list with elements  *)
(* s, or None or an int (s unused).  Temperatures are in tenths.           *)
(***************************************************************************)
Sentinel == "[X]"      \* the cross mark U+274C that prefixes failure strings

DEFAULT_MODEL == "meta-llama/Meta-Llama-3.1-8B-Instruct-Turbo"
MAX_TOKENS == 4000
TEMPERATURE == 1       \* 0.1, in tenths

None == <<>>
Str(chunks) == [type |-> "str", s |-> chunks]
List(elems) == [type |-> "list", s |-> elems]
PyNone == [type |-> "none", s |-> <<>>]
PyInt == [type |-> "int", s |-> <<>>]

\* bool(x) for an optional string / an optional number
TruthyStr(x) == x # None /\ x[1] # ""
TruthyNum(x) == x # None /\ x[1] # 0

\* a or b
OrStr(a, b) == IF TruthyStr(a) THEN a[1] ELSE b
OrNum(a, b) == IF TruthyNum(a) THEN a[1] ELSE b

\* "❌" in v: a substring of a str, an element of a list
HasSentinel(v) == \E i \in 1..Len(v.s) : v.s[i] = Sentinel

\* self.client after __init__ when a key counts as present unless it is None
ClientEnabledUnlessNone(key, cfg_key) ==
    IF TruthyStr(key) THEN TRUE
    ELSE IF cfg_key # None THEN TRUE ELSE FALSE

\* self.client after LLMClient.__init__(api_key=key) with Config.TOGETHER_API_KEY
\* = cfg_key: True when self.api_key is truthy
ClientEnabled(key, cfg_key) ==
    IF TruthyStr(key) THEN TRUE
    ELSE IF TruthyStr(cfg_key) THEN TRUE ELSE FALSE

\* the payload of lines 42-59
Payload(prompt, model, temperature, max_tokens) ==
    [model       |-> OrStr(model, DEFAULT_MODEL),
     content     |-> prompt,
     temperature |-> OrNum(temperature, TEMPERATURE),
     max_tokens  |-> OrNum(max_tokens, MAX_TOKENS)]

\* return value
Return(v) == [raised |-> FALSE, msg |-> "", value |-> v]
\* raise an exception e with str(e) = m
Raise(m) == [raised |-> TRUE, msg |-> m, value |-> PyNone]

\* lines 62-77: requests.post and the handling of its outcome o, inside the try
AfterPost(o) ==
    IF o.kind = "exception" THEN Raise(o.msg)
    ELSE IF o.status = 200
    THEN IF o.json = "invalid" THEN Raise("Expecting value: line 1 column 1 (char 0)")
         ELSE IF o.json = "no_choices" THEN Raise("'choices'")
         ELSE IF o.json = "empty_choices" THEN Raise("list index out of range")
         \* line 72: len(result)
         ELSE IF o.content.type = "none" THEN Raise("object of type 'NoneType' has no len()")
         ELSE IF o.content.type = "int" THEN Raise("object of type 'int' has no len()")
         ELSE Return(o.content)
    ELSE Return(Str(<<Sentinel, " ", "API request failed with status ", ToString(o.status), ": ">>
                    \o o.text))

\* LLMClient.generate_response: the value returned, the payloads sent to the
\* transport, and whether an exception left the method
GenerateResponse(enabled, prompt, model, temperature, max_tokens, o) ==
    IF ~enabled
    THEN [value  |-> Str(<<Sentinel, " ", "API client not initialized, please check API key configuration">>),
          sent   |-> <<>>,
          raised |-> FALSE]
    ELSE [value  |-> IF AfterPost(o).raised
                     THEN Str(<<Sentinel, " ", "API call failed: ", AfterPost(o).msg>>)
                     ELSE AfterPost(o).value,
          sent   |-> <<Payload(prompt, model, temperature, max_tokens)>>,
          raised |-> FALSE]

SummaryPrompt(t, max_length) ==
    <<"Please generate a concise summary of the following text, no more than ",
      ToString(max_length), " words: Text content: ", t, " Summary:">>

\* max_tokens of line 98 without the allowance
SummaryMaxTokensBare(max_length) == max_length

\* max_tokens of line 98
SummaryMaxTokens(max_length) == max_length + 50

\* LLMClient.summarize_text
SummarizeText(enabled, t, max_length, o) ==
    IF ~enabled
    THEN [value  |-> Str(<<Sentinel, " ", "Cannot generate summary: API client not initialized">>),
          sent   |-> <<>>,
          raised |-> FALSE]
    ELSE GenerateResponse(enabled, SummaryPrompt(t, max_length), None, None,
                          <<SummaryMaxTokens(max_length)>>, o)

AnswerPrompt(context, question) ==
    <<"Based on the following document content, please answer the user's question. ",
      "Document content: ", context, " User question: ", question, " Answer:">>

\* LLMClient.answer_question
AnswerQuestion(enabled, context, question, o) ==
    IF ~enabled
    THEN [value  |-> Str(<<Sentinel, " ", "Cannot answer question: API client not initialized">>),
          sent   |-> <<>>,
          raised |-> FALSE]
    ELSE GenerateResponse(enabled, AnswerPrompt(context, question), None, None, None, o)

ProbePrompt == <<"Please reply 'Connection test successful' to confirm the API is working.">>

\* the test of line 128 taken as the truth value of the response
ProbeSucceededIfTruthy(response) == response.s # <<>>

\* the test of line 128: "❌" not in response
ProbeSucceeded(response) == ~HasSentinel(response)

\* LLMClient.test_connection: ok and value are the pair returned
TestConnection(enabled, o) ==
    IF ~enabled
    THEN [ok |-> FALSE, value |-> Str(<<"API client not initialized">>), sent |-> <<>>,
          raised |-> FALSE]
    ELSE LET r == GenerateResponse(enabled, ProbePrompt, None, None, <<50>>, o)
         IN  [ok |-> ProbeSucceeded(r.value), value |-> r.value, sent |-> r.sent,
              raised |-> r.raised]

(***************************************************************************)
(* Inputs of _clean_text                                                   *)
(***************************************************************************)
\* 'a', 'b', ' ', '\t', '\n'
CleanAlphabet == {97, 98, SP, 9, NL}

Strings(alphabet, n) == UNION {[1..k -> alphabet] : k \in 0..n}

\* "Line one\n\n\nLine two  with   extra spaces\n"
ExampleUpload ==
    <<76, 105, 110, 101, 32, 111, 110, 101, 10, 10, 10,
      76, 105, 110, 101, 32, 116, 119, 111, 32, 32, 119, 105, 116, 104, 32, 32, 32,
      101, 120, 116, 114, 97, 32, 115, 112, 97, 99, 101, 115, 10>>

\* "Line one\nLine two with extra spaces"
ExampleCleaned ==
    <<76, 105, 110, 101, 32, 111, 110, 101, 10,
      76, 105, 110, 101, 32, 116, 119, 111, 32, 119, 105, 116, 104, 32,
      101, 120, 116, 114, 97, 32, 115, 112, 97, 99, 101, 115>>

CleanInputs == Strings(CleanAlphabet, MaxLen) \cup {ExampleUpload}

(***************************************************************************)
(* Inputs of extract_text_from_file                                        *)
(***************************************************************************)
\* 'a', ' ', '\n', and 0xC3 0x81: together the UTF-8 form of U+00C1, each
\* alone ill-formed UTF-8; ascii rejects both and cp1252 has no character
\* for 0x81
ByteAlphabet == {97, 32, 10, 195, 129}

\* contents of at most MaxBytes bytes, and the same followed by MAX_FILE_SIZE
\* spaces: one of these is exactly at the limit, the others exceed it
Contents == {[data |-> d, pad |-> n] : d \in Strings(ByteAlphabet, MaxBytes),
                                       n \in {0, MAX_FILE_SIZE}}

Tags == {"txt", "TXT", "pdf", "Pdf", "docx", "exe", "EXE", ""}

\* texts of one page or one paragraph: "", " \t", "a", " a  b\n"
PartTexts == {<<>>, <<SP, 9>>, <<97>>, <<SP, 97, SP, SP, 98, NL>>}

\* what a parsing library does with some bytes
ParserOutcomes ==
    {[raises |-> TRUE, msg |-> m, parts |-> <<>>] : m \in {"EOF marker not found", ""}}
    \cup {[raises |-> FALSE, msg |-> "", parts |-> ps] : ps \in Strings(PartTexts, MaxParts)}

(***************************************************************************)
(* Inputs of the client                                                    *)
(***************************************************************************)
Keys == {None, <<"">>, <<"k">>}
Models == {None, <<"">>, <<"mistralai/Mixtral-8x7B-Instruct-v0.1">>}
Temperatures == {None, <<0>>, <<7>>}
TokenLimits == {None, <<0>>, <<50>>}
\* summary lengths in words; the slider of app.py offers 50..500
SummaryLengths == {0, 50, 100, 200, 500}

\* what the model replies
Replies == Strings({"a", Sentinel}, MaxReply) \cup {<<"Connection test successful">>}

\* the JSON values a 200 body can hold as content
Contents200 == {Str(r) : r \in Replies} \cup {List(<<"a">>), PyNone, PyInt}

NoOutcome == [kind |-> "none", msg |-> "", status |-> 0, text |-> <<>>, json |-> "",
              content |-> PyNone]

\* what requests.post and the response do
Outcomes ==
    {[NoOutcome EXCEPT !.kind = "exception", !.msg = "Read timed out."]}
    \cup {[NoOutcome EXCEPT !.kind = "response", !.status = 401, !.text = <<>>],
          [NoOutcome EXCEPT !.kind = "response", !.status = 500,
                            !.text = <<"Internal Server Error">>]}
    \cup {[NoOutcome EXCEPT !.kind = "response", !.status = 200, !.json = j] :
              j \in {"invalid", "no_choices", "empty_choices"}}
    \cup {[NoOutcome EXCEPT !.kind = "response", !.status = 200, !.json = "ok",
                            !.content = c] : c \in Contents200}

NoCall == [op |-> "none", model |-> None, temperature |-> None, max_tokens |-> None,
           max_length |-> None]

\* "hello world\nfoo"
ExampleStatsText == <<104, 101, 108, 108, 111, 32, 119, 111, 114, 108, 100, 10, 102, 111, 111>>

\* None, and the strings _clean_text is enumerated on
StatsInputs == {<<>>} \cup {<<s>> : s \in CleanInputs \cup {ExampleStatsText}}

NoContent == [data |-> <<>>, pad |-> 0]
NoResult == [success |-> FALSE, text |-> <<>>, error |-> <<>>, steps |-> <<>>]

(***************************************************************************)
(* Specifications                                                          *)
(***************************************************************************)
CleanIdle == text = <<>> /\ orig = <<>> /\ prev = <<>> /\ cleans = 0
ExtractIdle == file_content = NoContent /\ file_type = "" /\ extracted = FALSE
               /\ result = NoResult

ClientIdle == /\ api_key = None /\ config_key = None /\ client = FALSE
              /\ http_requests = 0 /\ call = NoCall /\ outcome = NoOutcome
              /\ ret = PyNone /\ ok = FALSE /\ raised = FALSE /\ sent = <<>>

StatsIdle == stats_text = <<>> /\ stats_done = FALSE /\ stats = ZeroStats

CleanInit ==
    /\ text \in CleanInputs
    /\ orig = text
    /\ prev = text
    /\ cleans = 0
    /\ ExtractIdle
    /\ ClientIdle
    /\ StatsIdle

\* one call text = self._clean_text(text)
DoClean ==
    /\ cleans < MaxCleans
    /\ prev' = text
    /\ text' = CleanText(text)
    /\ cleans' = cleans + 1
    /\ UNCHANGED <<orig, extractVars, clientVars, statsVars>>

SpecClean == CleanInit /\ [][DoClean]_vars

ExtractInit ==
    /\ file_content \in Contents
    /\ file_type \in Tags
    /\ extracted = FALSE
    /\ result = NoResult
    /\ CleanIdle
    /\ ClientIdle
    /\ StatsIdle

\* one call extract_text_from_file(file_content=file_content, file_type=file_type)
Extract ==
    /\ ~extracted
    /\ \E p \in ParserOutcomes :
           result' = ExtractTextFromFile(file_content, file_type, p)
    /\ extracted' = TRUE
    /\ UNCHANGED <<file_content, file_type, cleanVars, clientVars, statsVars>>

SpecExtract == ExtractInit /\ [][Extract]_vars

\* llm = LLMClient(api_key)
ClientInit ==
    /\ api_key \in Keys
    /\ config_key \in Keys
    /\ client = ClientEnabled(api_key, config_key)
    /\ http_requests = 0
    /\ call = NoCall
    /\ outcome = NoOutcome
    /\ ret = PyNone
    /\ ok = FALSE
    /\ raised = FALSE
    /\ sent = <<>>
    /\ CleanIdle
    /\ ExtractIdle
    /\ StatsIdle

\* the bookkeeping every operation shares: r is what the operation did, o what
\* the transport would do with a request
Finish(c, r, o) ==
    /\ http_requests + Len(r.sent) <= MaxRequests
    /\ call' = c
    /\ outcome' = IF r.sent = <<>> THEN NoOutcome ELSE o
    /\ ret' = r.value
    /\ raised' = r.raised
    /\ sent' = r.sent
    /\ http_requests' = http_requests + Len(r.sent)
    /\ UNCHANGED <<api_key, config_key, client, cleanVars, extractVars, statsVars>>

\* llm.generate_response(prompt, model, temperature, max_tokens)
CallGenerateResponse ==
    \E m \in Models, t \in Temperatures, k \in TokenLimits, o \in Outcomes :
        /\ Finish([NoCall EXCEPT !.op = "generate_response", !.model = m,
                                 !.temperature = t, !.max_tokens = k],
                  GenerateResponse(client, <<"prompt">>, m, t, k, o), o)
        /\ ok' = FALSE

\* llm.summarize_text(text, max_length)
CallSummarizeText ==
    \E n \in SummaryLengths, o \in Outcomes :
        /\ Finish([NoCall EXCEPT !.op = "summarize_text", !.max_length = <<n>>],
                  SummarizeText(client, "document", n, o), o)
        /\ ok' = FALSE

\* llm.answer_question(context, question)
CallAnswerQuestion ==
    \E o \in Outcomes :
        /\ Finish([NoCall EXCEPT !.op = "answer_question"],
                  AnswerQuestion(client, "document", "question", o), o)
        /\ ok' = FALSE

\* llm.test_connection()
CallTestConnection ==
    \E o \in Outcomes :
        /\ Finish([NoCall EXCEPT !.op = "test_connection"], TestConnection(client, o), o)
        /\ ok' = TestConnection(client, o).ok

ClientNext == \/ CallGenerateResponse
              \/ CallSummarizeText
              \/ CallAnswerQuestion
              \/ CallTestConnection

SpecClient == ClientInit /\ [][ClientNext]_vars

StatsInit ==
    /\ stats_text \in StatsInputs
    /\ stats_done = FALSE
    /\ stats = ZeroStats
    /\ CleanIdle
    /\ ExtractIdle
    /\ ClientIdle

\* one call extractor.get_text_stats(stats_text)
GetStats ==
    /\ ~stats_done
    /\ stats' = GetTextStats(stats_text)
    /\ stats_done' = TRUE
    /\ UNCHANGED <<stats_text, cleanVars, extractVars, clientVars>>

SpecStats == StatsInit /\ [][GetStats]_vars

(***************************************************************************)
(* Normal form, stated on positions rather than by the code's loop         *)
(***************************************************************************)
\* the elements of s at the positions in K, in increasing order of position
AtPositions(s, K) ==
    [j \in 1..Cardinality(K) |->
        s[CHOOSE i \in K : Cardinality({k \in K : k < i}) = j - 1]]

NonSpacePositions(l) == {i \in 1..Len(l) : ~IsSpace(l[i])}

\* l from its first to its last non-whitespace character
Trimmed(l) ==
    IF NonSpacePositions(l) = {} THEN <<>>
    ELSE LET lo == CHOOSE i \in NonSpacePositions(l) : \A k \in NonSpacePositions(l) : i <= k
             hi == CHOOSE i \in NonSpacePositions(l) : \A k \in NonSpacePositions(l) : i >= k
         IN  SubSeq(l, lo, hi)

\* l without the spaces that directly follow a space
Squeezed(l) == AtPositions(l, {i \in 1..Len(l) : ~(l[i] = SP /\ i > 1 /\ l[i-1] = SP)})

\* the lines a text in normal form must have, given the text it was cleaned from
ExpectedLines(s) ==
    LET lines == SplitLines(s)
        kept  == {i \in 1..Len(lines) : NonSpacePositions(lines[i]) # {}}
    IN  [j \in 1..Cardinality(kept) |-> Squeezed(Trimmed(AtPositions(lines, kept)[j]))]

NoAdjacentSpaces(s) == \A i \in 1..(Len(s) - 1) : ~(s[i] = SP /\ s[i+1] = SP)

LinesAreStripped(s) ==
    s # <<>> => \A i \in 1..Len(SplitLines(s)) :
                   LET l == SplitLines(s)[i]
                   IN  l # <<>> /\ ~IsSpace(l[1]) /\ ~IsSpace(l[Len(l)])

\* C7: cleaning is idempotent: _clean_text(_clean_text(s)) = _clean_text(s),
\* that is, a second call returns its argument unchanged.
C7_CleanIdempotent == cleans >= 2 => text = prev

\* a second call was made on a string that the first call had changed
C7_Witness == cleans = 2 /\ prev # orig /\ prev # <<>> /\ text = prev

\* C8: the output of _clean_text is in normal form: the input's non-blank lines
\* in order, each stripped and with every run of spaces replaced by one space,
\* joined by single newlines; so no empty line, no leading or trailing
\* whitespace on a line, no two adjacent spaces; and the example upload
\* cleans to "Line one\nLine two with extra spaces".
C8_CleanNormalForm ==
    cleans >= 1 =>
        /\ IF ExpectedLines(prev) = <<>> THEN text = <<>>
           ELSE SplitLines(text) = ExpectedLines(prev)
        /\ NoAdjacentSpaces(text)
        /\ LinesAreStripped(text)
        /\ (prev = ExampleUpload => text = ExampleCleaned)

\* the example upload has been cleaned
C8_Witness == cleans = 1 /\ prev = ExampleUpload /\ text = ExampleCleaned

(***************************************************************************)
(* Claims about extract_text_from_file                                     *)
(***************************************************************************)
HasNonSpace(t) == \E i \in 1..Len(t) : ~IsSpace(t[i])
NonEmptyMessage(e) == \E i \in 1..Len(e) : e[i] # ""

\* C1: every result is either a success with a text holding a non-whitespace
\* character and an empty error, or a failure with a non-empty error and an
\* empty text; so a text that is empty or whitespace-only after cleaning is
\* never returned as a success, whichever format it came from.
C1_ResultShape ==
    extracted =>
        \/ result.success /\ HasNonSpace(result.text) /\ result.error = <<>>
        \/ ~result.success /\ NonEmptyMessage(result.error) /\ result.text = <<>>

\* a plain-text upload whose bytes decode to whitespace only was refused
C1_Witness ==
    /\ extracted
    /\ Lower(file_type) = "txt" /\ file_content.data # <<>> /\ file_content.pad = 0
    /\ ~result.success
    /\ result.error = <<"No text found in file">>
    /\ result.steps = <<"decode", "clean">>

UnsupportedMessage(tag) ==
    <<"Unsupported file type: ", Lower(tag), ". Supported types: ", SupportedRepr>>

\* C2: for all byte inputs, zero bytes included, and any tag outside the
\* supported set after lower-casing, the result is a failure whose message
\* names the tag and the supported set.
C2_UnsupportedNamesTag ==
    (extracted /\ file_type # "" /\ Lower(file_type) \notin SUPPORTED_FILE_TYPES) =>
        ~result.success /\ result.error = UnsupportedMessage(file_type)

TooLargeMessage(c) ==
    <<"File too large: ">> \o SizeMB2f(FileLen(c)) \o <<"MB. Maximum size: ", "10", ".0", "MB">>

\* C3: a content longer than MAX_FILE_SIZE with a supported tag is refused
\* with the error citing its size, before any decoding, parsing or cleaning,
\* whatever the content and whatever a parser would have made of it.
C3_OversizeRefusedFirst ==
    (extracted /\ FileLen(file_content) > MAX_FILE_SIZE
               /\ Lower(file_type) \in SUPPORTED_FILE_TYPES) =>
        /\ ~result.success
        /\ result.text = <<>>
        /\ result.error = TooLargeMessage(file_content)
        /\ result.steps = <<>>

\* an oversized plain-text upload that is not valid UTF-8 was refused
C3_Witness ==
    /\ extracted
    /\ FileLen(file_content) > MAX_FILE_SIZE
    /\ file_type = "TXT"
    /\ ~Utf8Valid(file_content.data)
    /\ result.error[1] = "File too large: "
    /\ result.steps = <<>>

(***************************************************************************)
(* Claims about LLMClient                                                  *)
(***************************************************************************)
\* no credential was injected and none is configured
NoCredential == ~TruthyStr(api_key) /\ ~TruthyStr(config_key)

StringOps == {"generate_response", "summarize_text", "answer_question"}

\* C4: a client constructed without a credential never calls the transport:
\* the three string operations return a string carrying the sentinel,
\* test_connection returns ok = False with a diagnostic, nothing raises, and
\* the number of HTTP requests stays zero after any sequence of operations.
C4_DisabledNeverCalls ==
    NoCredential =>
        /\ http_requests = 0
        /\ sent = <<>>
        /\ ~raised
        /\ call.op \in StringOps => ret.type = "str" /\ HasSentinel(ret)
        /\ call.op = "test_connection" => ~ok /\ ret.type = "str" /\ ret.s # <<>>

\* a client given an empty key, with none configured, has answered test_connection
C4_Witness ==
    /\ api_key = <<"">> /\ config_key = None
    /\ call.op = "test_connection"
    /\ ~ok /\ ret = Str(<<"API client not initialized">>)
    /\ http_requests = 0

\* the transport outcomes that are failures: an exception, a status other
\* than 200, a 200 body that is no JSON or lacks choices[0].message.content
\* as a string
FailureOutcome(o) ==
    \/ o.kind = "exception"
    \/ o.kind = "response" /\ o.status # 200
    \/ o.kind = "response" /\ o.status = 200 /\ (o.json # "ok" \/ o.content.type # "str")

\* the failure string carries the status code and the body, or the exception text
EmbedsDiagnostic(v, o) ==
    IF o.kind = "exception" THEN \E i \in 1..Len(v.s) : v.s[i] = o.msg
    ELSE IF o.status # 200
    THEN /\ \E i \in 1..Len(v.s) : v.s[i] = ToString(o.status)
         /\ SubSeq(v.s, Len(v.s) - Len(o.text) + 1, Len(v.s)) = o.text
    ELSE Len(v.s) > 3

\* C5: on an enabled client every failure outcome of the transport (non-200
\* status, exception, unparsable or malformed 200 body) makes
\* generate_response return a string that begins with the sentinel and embeds
\* the status code and body or the exception text, and no exception leaves it.
C5_FailuresAreMarked ==
    (client /\ call.op = "generate_response" /\ FailureOutcome(outcome)) =>
        /\ ~raised
        /\ ret.type = "str"
        /\ ret.s # <<>>
        /\ ret.s[1] = Sentinel
        /\ EmbedsDiagnostic(ret, outcome)

\* HTTP 200 with a body {choices:[{message:{content:c}}]}, c a string
WellFormed200(o) ==
    o.kind = "response" /\ o.status = 200 /\ o.json = "ok" /\ o.content.type = "str"

\* C6 as stated: for every content string c of a well-formed 200 body,
\* test_connection returns ok = True and the message c.
C6_ProbeEchoesAnyContent ==
    (client /\ call.op = "test_connection" /\ WellFormed200(outcome)) =>
        ok /\ ret = outcome.content

\* C6: for every content string c of a well-formed 200 body that does not
\* contain the sentinel, test_connection on an enabled client returns
\* ok = True and the message c.
C6_ProbeEchoesContent ==
    (client /\ call.op = "test_connection" /\ WellFormed200(outcome)
            /\ ~HasSentinel(outcome.content)) =>
        ok /\ ret = outcome.content

\* the probe was answered "Connection test successful"
C6_Witness ==
    /\ client /\ call.op = "test_connection"
    /\ outcome.status = 200
    /\ outcome.content = Str(<<"Connection test successful">>)
    /\ ok /\ ret = Str(<<"Connection test successful">>)

C10_PayloadHonoursArguments ==
    (client /\ call.op = "generate_response" /\ call.model # <<"">>) =>
        /\ Len(sent) = 1
        /\ sent[1].model = (IF call.model = None THEN DEFAULT_MODEL ELSE call.model[1])
        /\ (call.temperature # None /\ call.temperature[1] \in 0..10)
               => sent[1].temperature = call.temperature[1]
        /\ call.temperature = None => sent[1].temperature = TEMPERATURE
        /\ (call.max_tokens # None /\ call.max_tokens[1] > 0)
               => sent[1].max_tokens = call.max_tokens[1]
        /\ call.max_tokens = None => sent[1].max_tokens = MAX_TOKENS

(***************************************************************************)
(* Claims about get_text_stats                                             *)
(***************************************************************************)
\* the positions where a whitespace-delimited token starts
WordStarts(s) == {i \in 1..Len(s) : ~IsSpace(s[i]) /\ (i = 1 \/ IsSpace(s[i-1]))}

\* the positions of the first non-whitespace character of each block: the ones
\* with no non-whitespace character before them, or with two consecutive
\* newlines between them and the non-whitespace character before them
ParagraphStarts(s) ==
    {i \in 1..Len(s) :
        /\ ~IsSpace(s[i])
        /\ \/ \A j \in 1..(i-1) : IsSpace(s[j])
           \/ \E k \in 1..(i-2) :
                  /\ s[k] = NL /\ s[k+1] = NL
                  /\ \A j \in k..(i-1) : IsSpace(s[j])}

\* C11: get_text_stats returns four zeros for an empty or absent text; for a
\* non-empty text it returns the length, the number of whitespace-delimited
\* tokens, the number of newline-delimited segments (at least 1) and the
\* number of blocks delimited by two consecutive newlines that hold a
\* non-whitespace character; "hello world\nfoo" gives 15, 3, 2.
C11_TextStats ==
    stats_done =>
        IF stats_text = <<>> \/ stats_text[1] = <<>>
        THEN stats = ZeroStats
        ELSE LET s == stats_text[1]
             IN  /\ stats.character_count = Len(s)
                 /\ stats.word_count = Cardinality(WordStarts(s))
                 /\ stats.line_count = Cardinality({i \in 1..Len(s) : s[i] = NL}) + 1
                 /\ stats.line_count >= 1
                 /\ stats.paragraph_count = Cardinality(ParagraphStarts(s))
                 /\ (s = ExampleStatsText =>
                        /\ stats.character_count = 15
                        /\ stats.word_count = 3
                        /\ stats.line_count = 2)

\* the statistics of "hello world\nfoo" were computed
C11_Witness ==
    /\ stats_done
    /\ stats_text = <<ExampleStatsText>>
    /\ stats.character_count = 15 /\ stats.word_count = 3 /\ stats.line_count = 2

(***************************************************************************)
(* Claims about the decoding of plain-text uploads                         *)
(***************************************************************************)
DecodeExhausted == <<"Unable to decode text file with common encodings">>

\* C12: for a plain-text upload that is non-empty and within the size limit,
\* decoding never exhausts the fallback chain: the text is the UTF-8 decoding
\* of the bytes when they are valid UTF-8 and their latin-1 decoding (each
\* byte its own code point) otherwise, then cleaned; the decode-exhausted
\* failure is never returned and ascii and cp1252 are never used.
C12_DecodeNeverExhausted ==
    (extracted /\ Lower(file_type) = "txt" /\ Truthy(file_content)
               /\ FileLen(file_content) <= MAX_FILE_SIZE) =>
        LET bs       == FileBytes(file_content)
            decoded  == IF Utf8Valid(bs) THEN Utf8Decode(bs) ELSE [i \in 1..Len(bs) |-> bs[i]]
            expected == CleanText(decoded)
        IN  /\ result.error # DecodeExhausted
            /\ TxtEncoding(bs) = (IF Utf8Valid(bs) THEN "utf-8" ELSE "latin-1")
            /\ IF HasNonSpace(expected)
               THEN result.success /\ result.text = expected
               ELSE ~result.success /\ result.error = <<"No text found in file">>

\* the lone byte 0x81, which UTF-8, ascii and cp1252 all reject, was
\* extracted as the character U+0081
C12_Witness ==
    /\ extracted
    /\ file_type = "txt"
    /\ file_content = [data |-> <<129>>, pad |-> 0]
    /\ ~Utf8Valid(file_content.data)
    /\ ~CanDecode("ascii", file_content.data)
    /\ ~CanDecode("cp1252", file_content.data)
    /\ result.success
    /\ result.text = <<129>>

====
